---- MODULE Spec2Model ----
(***************************************************************************)
(* Pong: two paddles (keyboard and FollowBall) and a ball, src/main.go.    *)
(* Positions and speeds are float64 in the source; every value the game    *)
(* produces is a small integer, on which float64 arithmetic is exact, so   *)
(* the model uses integers.                                                *)
(***************************************************************************)
EXTENDS Integers, Sequences, FiniteSets, TLC

VARIABLES player1, player2, ball, fb, panicked, ticks, commit, last

vars == <<player1, player2, ball, fb, panicked, ticks, commit, last>>

(* ---------------- program constants ---------------- *)
screenWidth == 320
screenHeight == 240

Up == 0
Down == 1
Nothing == 2

decisionBuffer == 15

playerWidth == 10
playerHeight == 50
playerSpeed == 2
ballWidth == 10

(* ---------------- bounds of the model ---------------- *)
MaxSpeed == 3
MaxCalls == 2
MaxTicks == 500

(* ---------------- helpers ---------------- *)
Abs(x) == IF x < 0 THEN -x ELSE x

\* 0.6*screenWidth, an exact constant expression in Go
visibleRange == (6 * screenWidth) \div 10

(* ---------------- controllers ---------------- *)
ArrowKeysInput(upPressed, downPressed) ==
    IF upPressed = downPressed THEN Nothing
    ELSE IF upPressed THEN Up
    ELSE Down

\* FollowBall.Input arming the counter one short
FollowBallInputShortWindow(f, ballX, ballY, x, y, speed) ==
    IF f.count > 0
    THEN [fb |-> [f EXCEPT !.count = @ - 1], dir |-> f.lastDecision,
          reevaluated |-> FALSE]
    ELSE IF Abs(ballX - x) < visibleRange /\ ballY < y - speed
    THEN [fb |-> [lastDecision |-> Up, count |-> f.count + decisionBuffer - 1],
          dir |-> Up, reevaluated |-> TRUE]
    ELSE IF Abs(ballX - x) < visibleRange /\ ballY > y + speed
    THEN [fb |-> [lastDecision |-> Down, count |-> f.count + decisionBuffer - 1],
          dir |-> Down, reevaluated |-> TRUE]
    ELSE [fb |-> f, dir |-> Nothing, reevaluated |-> TRUE]

\* FollowBall.Input seeing the ball at exactly the visibility limit
FollowBallInputSeesLimit(f, ballX, ballY, x, y, speed) ==
    IF f.count > 0
    THEN [fb |-> [f EXCEPT !.count = @ - 1], dir |-> f.lastDecision,
          reevaluated |-> FALSE]
    ELSE IF Abs(ballX - x) <= visibleRange /\ ballY < y - speed
    THEN [fb |-> [lastDecision |-> Up, count |-> f.count + decisionBuffer],
          dir |-> Up, reevaluated |-> TRUE]
    ELSE IF Abs(ballX - x) <= visibleRange /\ ballY > y + speed
    THEN [fb |-> [lastDecision |-> Down, count |-> f.count + decisionBuffer],
          dir |-> Down, reevaluated |-> TRUE]
    ELSE [fb |-> f, dir |-> Nothing, reevaluated |-> TRUE]

\* FollowBall.Input: the new controller state, the returned direction and
\* whether the call got past the commit counter to look at the ball.
FollowBallInput(f, ballX, ballY, x, y, speed) ==
    IF f.count > 0
    THEN [fb |-> [f EXCEPT !.count = @ - 1], dir |-> f.lastDecision,
          reevaluated |-> FALSE]
    ELSE IF Abs(ballX - x) < visibleRange /\ ballY < y - speed
    THEN [fb |-> [lastDecision |-> Up, count |-> f.count + decisionBuffer],
          dir |-> Up, reevaluated |-> TRUE]
    ELSE IF Abs(ballX - x) < visibleRange /\ ballY > y + speed
    THEN [fb |-> [lastDecision |-> Down, count |-> f.count + decisionBuffer],
          dir |-> Down, reevaluated |-> TRUE]
    ELSE [fb |-> f, dir |-> Nothing, reevaluated |-> TRUE]

(* ---------------- Player.Update ---------------- *)
\* Player.Update without the screen checks
PlayerMoveUnclamped(y, height, speed, dir) ==
    IF dir = Up THEN y - speed
    ELSE IF dir = Down THEN y + speed
    ELSE y

PlayerMove(y, height, speed, dir) ==
    LET y1 == IF dir = Up /\ y - speed * 2 >= 0 THEN y - speed ELSE y
    IN  IF dir = Down /\ y1 + height + speed * 2 <= screenHeight
        THEN y1 + speed ELSE y1

(* ---------------- Ball.Update ---------------- *)
\* a Player seen through the Collider interface
PlayerCollider(p) ==
    [self |-> FALSE, X |-> p.X, Y |-> p.Y, W |-> playerWidth, H |-> playerHeight]

\* the ball itself passed as a collider (c.(*Ball) == b)
SelfCollider(b) ==
    [self |-> TRUE, X |-> b.X, Y |-> b.Y, W |-> ballWidth, H |-> ballWidth]

InXArea(bx, c) == bx + ballWidth >= c.X /\ bx <= c.X + c.W
InYArea(by, c) == by >= c.Y /\ by + ballWidth <= c.Y + c.H
InPaddle(bx, by, c) == InXArea(bx, c) /\ InYArea(by, c)

\* a bounce that recomputes the speed instead of reversing it
BounceXRecomputed(xs) == IF xs > 0 THEN -1 ELSE 1

BounceX(xs) == xs * (-1)

\* the loop over the colliders, from index i on
RECURSIVE Collide(_, _, _)
Collide(b, cs, i) ==
    IF i > Len(cs)
    THEN [XSpeed |-> b.XSpeed, panic |-> FALSE, bounced |-> 0]
    ELSE IF cs[i].self
    THEN [XSpeed |-> b.XSpeed, panic |-> TRUE, bounced |-> 0]
    ELSE IF ~InPaddle(b.X, b.Y, cs[i])
            /\ InPaddle(b.X + b.XSpeed, b.Y + b.YSpeed, cs[i])
    THEN [XSpeed |-> BounceX(b.XSpeed), panic |-> FALSE, bounced |-> i]
    ELSE Collide(b, cs, i + 1)

\* the left/right edge test with strict comparisons
EdgeXStrict(x, xs) == IF x < 0 \/ x + ballWidth > screenWidth THEN -xs ELSE xs

EdgeX(x, xs) == IF x <= 0 \/ x + ballWidth >= screenWidth THEN -xs ELSE xs
EdgeY(y, ys) == IF y <= 0 \/ y + ballWidth >= screenHeight THEN -ys ELSE ys

\* the ball after Update, given the X speed the collider loop left
BallMove(b, xs0) ==
    LET xs == EdgeX(b.X, xs0)
        ys == EdgeY(b.Y, b.YSpeed)
    IN  [X |-> b.X + xs, Y |-> b.Y + ys, XSpeed |-> xs, YSpeed |-> ys]

(* ---------------- observation of the last operation ---------------- *)
NoBall == [X |-> 0, Y |-> 0, XSpeed |-> 0, YSpeed |-> 0]
NoPlayer == [X |-> 0, Y |-> 0, Speed |-> 0]
NoEvent ==
    [op |-> "none", dir |-> Nothing, b |-> NoBall, p |-> NoPlayer, cs |-> <<>>,
     bounced |-> 0, reevaluated |-> FALSE, preCount |-> 0,
     priorCalls |-> 0, priorDecision |-> Nothing]

NoCommit == [decision |-> Nothing, calls |-> 16]

\* the state setup() builds
SetupPlayer1 == [X |-> 0, Y |-> 0, Speed |-> playerSpeed]
SetupPlayer2 ==
    [X |-> screenWidth - playerWidth, Y |-> screenHeight - playerHeight,
     Speed |-> playerSpeed]
SetupBall ==
    [X |-> screenWidth \div 2 - ballWidth \div 2,
     Y |-> screenHeight \div 2 - ballWidth \div 2,
     XSpeed |-> 1, YSpeed |-> 1]
SetupFollowBall == [lastDecision |-> Up, count |-> 0]

(* ======================================================================= *)
(* Player.Update under the keyboard, from any on-screen paddle             *)
(* ======================================================================= *)
InitPlayer ==
    /\ \E y \in 0 .. (screenHeight - playerHeight), s \in 1 .. MaxSpeed :
          player1 = [X |-> 0, Y |-> y, Speed |-> s]
    /\ player2 = SetupPlayer2
    /\ ball = SetupBall
    /\ fb = SetupFollowBall
    /\ panicked = FALSE
    /\ ticks = 0
    /\ commit = NoCommit
    /\ last = NoEvent

Player1Update ==
    \E upPressed \in BOOLEAN, downPressed \in BOOLEAN :
        LET dir == ArrowKeysInput(upPressed, downPressed)
        IN  /\ player1' = [player1 EXCEPT
                  !.Y = PlayerMove(player1.Y, playerHeight, player1.Speed, dir)]
            /\ last' = [NoEvent EXCEPT !.op = "PlayerUpdate", !.dir = dir,
                                       !.p = player1]
            /\ UNCHANGED <<player2, ball, fb, panicked, ticks, commit>>

NextPlayer == Player1Update

SpecPlayer == InitPlayer /\ [][NextPlayer]_vars

(* ======================================================================= *)
(* FollowBall.Input called through player2.Update, the ball moving freely  *)
(* between the calls                                                       *)
(* ======================================================================= *)
FollowXs == {screenWidth - playerWidth - visibleRange,
             screenWidth - playerWidth - visibleRange + 1}
FollowYs == {0, 100, screenHeight - ballWidth}

InitFollow ==
    /\ player1 = SetupPlayer1
    /\ player2 = SetupPlayer2
    /\ ball = SetupBall
    /\ fb = SetupFollowBall
    /\ panicked = FALSE
    /\ ticks = 0
    /\ commit = NoCommit
    /\ last = NoEvent

\* player2.Update: one call of FollowBall.Input, then the paddle moves.
\* commit counts the calls made since the last new decision.
Player2Update ==
    LET r == FollowBallInput(fb, ball.X, ball.Y, player2.X, player2.Y,
                             player2.Speed)
        decided == r.reevaluated /\ r.dir \in {Up, Down}
    IN  /\ fb' = r.fb
        /\ player2' = [player2 EXCEPT
              !.Y = PlayerMove(player2.Y, playerHeight, player2.Speed, r.dir)]
        /\ commit' = IF decided
                     THEN [decision |-> r.dir, calls |-> 0]
                     ELSE [commit EXCEPT !.calls =
                              IF @ >= 16 THEN @ ELSE @ + 1]
        /\ last' = [NoEvent EXCEPT !.op = "Input", !.dir = r.dir,
                                   !.b = ball, !.p = player2,
                                   !.reevaluated = r.reevaluated,
                                   !.preCount = fb.count,
                                   !.priorCalls = commit.calls,
                                   !.priorDecision = commit.decision]
        /\ UNCHANGED <<player1, ball, panicked, ticks>>

\* between two calls the ball may be anywhere: Ball.Update moves it, and
\* FollowBall.Input only reads its location
BallJump ==
    \E x \in FollowXs, y \in FollowYs :
        /\ ball' = [ball EXCEPT !.X = x, !.Y = y]
        /\ last' = NoEvent
        /\ UNCHANGED <<player1, player2, fb, panicked, ticks, commit>>

NextFollow == Player2Update \/ BallJump

SpecFollow == InitFollow /\ [][NextFollow]_vars

(* ======================================================================= *)
(* Ball.Update called with any collider list, from any on-screen ball      *)
(* ======================================================================= *)
BallXs == {0, 1, 5, 11, 12, 155, 299, 310}
BallYs == {0, 95, 98, 99, 100, 120, 141, 230}
BallSpeeds == {-2, -1, 1, 2}

LeftPaddle == [X |-> 0, Y |-> 100, Speed |-> playerSpeed]
RightPaddle == [X |-> screenWidth - playerWidth, Y |-> 100, Speed |-> playerSpeed]

\* the collider lists a call may pass: up to two of the paddles and the ball
ColliderLists(b) ==
    LET cands == {PlayerCollider(LeftPaddle), PlayerCollider(RightPaddle),
                  SelfCollider(b)}
    IN  {<<>>} \cup {<<c>> : c \in cands}
               \cup {<<c, d>> : c \in cands, d \in cands}

InitBall ==
    /\ player1 = LeftPaddle
    /\ player2 = RightPaddle
    /\ \E x \in BallXs, y \in BallYs, xs \in BallSpeeds, ys \in BallSpeeds :
          ball = [X |-> x, Y |-> y, XSpeed |-> xs, YSpeed |-> ys]
    /\ fb = SetupFollowBall
    /\ panicked = FALSE
    /\ ticks = 0
    /\ commit = NoCommit
    /\ last = NoEvent

\* one call ball.Update(cs...) that returns
BallUpdate ==
    \E cs \in ColliderLists(ball) :
        LET r == Collide(ball, cs, 1)
        IN  /\ ~panicked
            /\ ticks < MaxCalls
            /\ ~r.panic
            /\ ball' = BallMove(ball, r.XSpeed)
            /\ ticks' = ticks + 1
            /\ last' = [NoEvent EXCEPT !.op = "BallUpdate", !.b = ball,
                                       !.cs = cs, !.bounced = r.bounced]
            /\ UNCHANGED <<player1, player2, fb, panicked, commit>>

\* one call ball.Update(cs...) that ends in the panic: the process is gone
BallUpdatePanic ==
    \E cs \in ColliderLists(ball) :
        LET r == Collide(ball, cs, 1)
        IN  /\ ~panicked
            /\ ticks < MaxCalls
            /\ r.panic
            /\ panicked' = TRUE
            /\ ticks' = ticks + 1
            /\ last' = [NoEvent EXCEPT !.op = "BallUpdate", !.b = ball,
                                       !.cs = cs, !.bounced = r.bounced]
            /\ UNCHANGED <<player1, player2, ball, fb, commit>>

NextBall == BallUpdate \/ BallUpdatePanic

SpecBall == InitBall /\ [][NextBall]_vars

(* ======================================================================= *)
(* The game: setup(), then ticks of Game.Update                            *)
(* ======================================================================= *)
InitGame ==
    /\ player1 = SetupPlayer1
    /\ player2 = SetupPlayer2
    /\ ball = SetupBall
    /\ fb = SetupFollowBall
    /\ panicked = FALSE
    /\ ticks = 0
    /\ commit = NoCommit
    /\ last = NoEvent

GameUpdate ==
    \E upPressed \in BOOLEAN, downPressed \in BOOLEAN :
        LET dir1 == ArrowKeysInput(upPressed, downPressed)
            p1 == [player1 EXCEPT
                     !.Y = PlayerMove(player1.Y, playerHeight, player1.Speed, dir1)]
            r2 == FollowBallInput(fb, ball.X, ball.Y, player2.X, player2.Y,
                                  player2.Speed)
            p2 == [player2 EXCEPT
                     !.Y = PlayerMove(player2.Y, playerHeight, player2.Speed, r2.dir)]
            r == Collide(ball, <<PlayerCollider(p1), PlayerCollider(p2)>>, 1)
        IN  /\ ~panicked
            /\ ticks < MaxTicks
            /\ player1' = p1
            /\ player2' = p2
            /\ fb' = r2.fb
            /\ panicked' = r.panic
            /\ ball' = IF r.panic THEN ball ELSE BallMove(ball, r.XSpeed)
            /\ ticks' = ticks + 1
            /\ UNCHANGED <<commit, last>>

NextGame == GameUpdate

SpecGame == InitGame /\ [][NextGame]_vars

(* ======================================================================= *)
(* Properties                                                              *)
(* ======================================================================= *)

\* C1 (SpecPlayer): after any Player.Update calls from an on-screen paddle,
\* with any speed and any controller decision, the paddle is on screen:
\* 0 <= Y <= screenHeight - paddleHeight.
C1_PaddleOnScreen ==
    0 <= player1.Y /\ player1.Y <= screenHeight - playerHeight

\* Down was asked for within the margin of the bottom edge: the paddle stayed
C1_Witness ==
    /\ last.op = "PlayerUpdate"
    /\ last.dir = Down
    /\ last.p.Y + playerHeight + last.p.Speed * 2 > screenHeight
    /\ player1.Y = last.p.Y

\* C2 (SpecFollow): after a new decision of FollowBall.Input, each of the
\* next 15 calls returns that decision without looking at the ball, and the
\* 16th following call looks at the ball again.
C2_CommitWindow ==
    last.op = "Input" =>
        /\ last.priorCalls < 15 =>
              (last.dir = last.priorDecision /\ ~last.reevaluated)
        /\ last.priorCalls = 15 => last.reevaluated

\* the 15th repeat returned Up although the ball was below the paddle
C2_Witness ==
    /\ last.op = "Input"
    /\ last.priorCalls = 14
    /\ last.dir = Up
    /\ last.b.Y > last.p.Y + last.p.Speed
    /\ Abs(last.b.X - last.p.X) < (6 * screenWidth) \div 10

\* C3 as stated (SpecFollow): whenever the ball is 0.6*screenWidth or more
\* away horizontally at a call of FollowBall.Input, the call returns Nothing,
\* an active commit window notwithstanding.
C3_Original ==
    (last.op = "Input"
       /\ Abs(last.b.X - last.p.X) >= (6 * screenWidth) \div 10)
    => last.dir = Nothing

\* C3 amended (SpecFollow): whenever the ball is 0.6*screenWidth or more away
\* horizontally at a call of FollowBall.Input made with no commit window
\* active (count = 0), the call returns Nothing.
C3_Amended ==
    (last.op = "Input"
       /\ Abs(last.b.X - last.p.X) >= (6 * screenWidth) \div 10
       /\ last.preCount = 0)
    => last.dir = Nothing

\* no window active, the ball out of sight and above the paddle: Nothing
C3_Witness ==
    /\ last.op = "Input"
    /\ Abs(last.b.X - last.p.X) >= (6 * screenWidth) \div 10
    /\ last.preCount = 0
    /\ last.b.Y < last.p.Y - last.p.Speed
    /\ last.dir = Nothing

\* the ball's box and the collider's box intersect on both axes
BoxesIntersect(bx, by, c) ==
    /\ bx + ballWidth >= c.X /\ bx <= c.X + c.W
    /\ by + ballWidth >= c.Y /\ by <= c.Y + c.H

\* the two boxes share interior points
BoxesInterpenetrate(bx, by, c) ==
    /\ bx + ballWidth > c.X /\ bx < c.X + c.W
    /\ by + ballWidth > c.Y /\ by < c.Y + c.H

SingleCollider == last.op = "BallUpdate" /\ Len(last.cs) = 1 /\ ~last.cs[1].self

C5_NoBounceWhileOverlapping ==
    (SingleCollider /\ BoxesInterpenetrate(last.b.X, last.b.Y, last.cs[1]))
    => last.bounced = 0

\* C6 (SpecBall): Ball.Update with the ball at X = 0 and XSpeed < 0, any
\* colliders but the ball itself: XSpeed is positive afterwards.
C6_LeftEdgeReversal ==
    (last.op = "BallUpdate"
       /\ (\A i \in 1 .. Len(last.cs) : ~last.cs[i].self)
       /\ last.b.X = 0 /\ last.b.XSpeed < 0)
    => ball.XSpeed > 0

\* C7 (SpecBall): every Ball.Update call whose collider list contains the
\* ball itself, at any index, ends in the panic.
C7_SelfCollisionFatal ==
    (last.op = "BallUpdate" /\ (\E i \in 1 .. Len(last.cs) : last.cs[i].self))
    => panicked

\* C8 (SpecBall): no Ball.Update changes |XSpeed| or |YSpeed|, whatever the
\* colliders and edge contacts: the magnitudes keep their initial values.
C8_SpeedMagnitude ==
    [][/\ Abs(ball.XSpeed') = Abs(ball.XSpeed)
       /\ Abs(ball.YSpeed') = Abs(ball.YSpeed)]_vars

\* a second Update in a row bounced a ball of speed 2 off a paddle
C8_Witness ==
    /\ last.op = "BallUpdate"
    /\ last.bounced > 0
    /\ Abs(last.b.XSpeed) = 2
    /\ ball.XSpeed = -last.b.XSpeed
    /\ ticks = 2

\* C9 (SpecBall): the values Ball.Update computes for inPaddle and
\* inPaddleNextTick equal the axis-aligned bounding-box overlap of the two
\* rectangles, at the position and at position + velocity.
C9_OverlapIsAABB ==
    (last.op = "BallUpdate" /\ Len(last.cs) >= 1 /\ ~last.cs[1].self) =>
        /\ InPaddle(last.b.X, last.b.Y, last.cs[1])
              = BoxesIntersect(last.b.X, last.b.Y, last.cs[1])
        /\ InPaddle(last.b.X + last.b.XSpeed, last.b.Y + last.b.YSpeed, last.cs[1])
              = BoxesIntersect(last.b.X + last.b.XSpeed,
                               last.b.Y + last.b.YSpeed, last.cs[1])

\* C10 (SpecGame): in the game as set up, the ball's box is inside the screen
\* in every state.
C10_BallInScreen ==
    /\ 0 <= ball.X /\ ball.X + ballWidth <= screenWidth
    /\ 0 <= ball.Y /\ ball.Y + ballWidth <= screenHeight

\* the ball touches the left edge, moving left, inside player1's paddle
C10_Witness ==
    /\ ball.X = 0
    /\ ball.XSpeed < 0
    /\ InPaddle(ball.X, ball.Y, PlayerCollider(player1))

====
